---- MODULE Spec2Model ----
(***************************************************************************)
(* A model of watchrs: the Manifest Differ (get_list_differences), the     *)
(* Directory Watchers (dir_watcher, dir_runner), the Command Supervisors   *)
(* (cmd_runner, spawn_command_runner) and the Event Coordinator            *)
(* (event_handler) of lib.rs.                                              *)
(***************************************************************************)
EXTENDS Integers, Sequences, FiniteSets, TLC

\* ------------------------------------------------------------------------
\* Bounds of the model
\* ------------------------------------------------------------------------
MaxPath == 2
MaxTime == 2
MaxLen == 3
MaxEnv == 2
MaxWatch == 3
MaxSpawn == 2
MaxNames == 2
MaxEntries == 4
MaxIgnore == 1
MaxCalls == 2

VARIABLES
    \* a call of get_list_differences: its arguments, its result, its position
    list, comparison_list, changes, dpc,
    \* a scan: the directory tree under the root, the entry whose reading
    \* fails (if any), the function called, the ignored_paths handed to
    \* visit_dirs, the outcome of the call, and WatchRs.ignore_paths
    tree, failing, scanfn, ignored_paths, scanned, ignore_paths,
    \* the calls of the Process Identifier made so far: for each the process
    \* table it polled last and the pid it returned
    returned,
    \* the current directory of the process, and the fields status and
    \* dir_path of the WatchRs (self.status, self.dir_path)
    current_dir, self_status, dir_path,
    \* the watched directory: modification time of each path (0: no such
    \* file); the number of things the environment has done to the program
    \* so far: changes to the files, and failures of scans, spawns and waits
    fs, envsteps,
    \* the mpsc channel of WatcherEvent, oldest first
    chan,
    \* the Directory Watcher threads: which code they run, and for each its
    \* position and its baseline manifest (file_names)
    wvariant, watchers,
    \* the Command Supervisor thread: which code it runs, the platform, its
    \* position, the children it has spawned, their number, the pid its
    \* Process Identifier returned and the outcome of its last wait
    svariant, windows, spc, children, spawns, pid, status_code,
    \* whether a process that is no child of the supervisor carries the
    \* candidate name
    foreign,
    \* the Event Coordinator: its position, WatchRs.process_id and
    \* WatchRs.reload
    cpc, process_id, reload

diffVars == <<list, comparison_list, changes, dpc>>
scanVars == <<tree, failing, scanfn, ignored_paths, scanned, ignore_paths>>
\* the calls of single functions, run apart from the threads of the program
selfVars == <<current_dir, self_status, dir_path>>
callVars == <<diffVars, scanVars, returned, selfVars>>
envVars == <<fs, envsteps>>
watchVars == <<wvariant, watchers>>
supVars == <<svariant, windows, spc, children, spawns, pid, status_code, foreign>>
coordVars == <<cpc, process_id, reload>>
vars == <<list, comparison_list, changes, dpc,
          tree, failing, scanfn, ignored_paths, scanned, ignore_paths, returned,
          current_dir, self_status, dir_path,
          fs, envsteps, chan, wvariant, watchers,
          svariant, windows, spc, children, spawns, pid, status_code, foreign,
          cpc, process_id, reload>>

\* ------------------------------------------------------------------------
\* Data model
\* ------------------------------------------------------------------------
Paths == 1..MaxPath
Times == 1..MaxTime

\* item.file_name(): the last component of a path.  Path p lies in
\* directory (p % 2) and has base name (p + 1) \div 2, so that two paths in
\* different directories can share one name.
FileName(p) == (p + 1) \div 2

\* struct Files { name, path, time }
Files(p, t) == [name |-> FileName(p), path |-> p, time |-> t]

AllFiles == {Files(p, t) : p \in Paths, t \in Times}

Range(s) == {s[i] : i \in 1..Len(s)}

SeqsUpTo(S, n) == UNION {[1..k -> S] : k \in 0..n}

\* Vec::contains: some element equal (derived PartialEq, all fields)
Contains(s, item) == \E i \in 1..Len(s) : s[i] = item

\* ------------------------------------------------------------------------
\* Manifest Differ
\* ------------------------------------------------------------------------
\* Mutant: the filter's branches swapped (keeps the contained entries)
IsNew_swapped(comparison, item) == Contains(comparison, item)

\* Mutant: entries compared by path only, the modification time ignored
IsNew_by_path(comparison, item) ==
    ~\E i \in 1..Len(comparison) : comparison[i].path = item.path

\* if comparison_list.contains(item) { false } else { true }
IsNew(comparison, item) == ~Contains(comparison, item)

\* Mutant: the new entries are returned last first
get_list_differences_reversed(l, c) ==
    LET kept == SelectSeq(l, LAMBDA item : ~Contains(c, item))
    IN  [i \in 1..Len(kept) |-> kept[Len(kept) + 1 - i]]

\* Mutant: a symmetric difference, the deleted entries reported as well
get_list_differences_symmetric(l, c) ==
    SelectSeq(l, LAMBDA item : ~Contains(c, item))
        \o SelectSeq(c, LAMBDA item : ~Contains(l, item))

\* list.into_iter().filter(|item| ...).collect()
get_list_differences(l, c) == SelectSeq(l, LAMBDA item : IsNew(c, item))

\* process ids: the run command of the k-th spawn, the executable it builds
\* and starts, a process of the same name that is no child, and no process
CargoPid(k) == <<"cargo", k>>
AppPid(k) == <<"app", k>>
ForeignPid == <<"foreign", 0>>
NoPid == <<"none", 0>>

\* no call of get_list_differences is under way
DiffOff ==
    /\ list = <<>>
    /\ comparison_list = <<>>
    /\ changes = <<>>
    /\ dpc = "off"

\* the path of no entry of the tree
NoSuchEntry == 0 - 1

\* no scan is under way
ScanOff ==
    /\ tree = <<>>
    /\ failing = NoSuchEntry
    /\ scanfn = "none"
    /\ ignored_paths = <<>>
    /\ scanned = [status |-> "off", files |-> <<>>]
    /\ ignore_paths = <<>>

\* the Process Identifier is not called apart from the supervisor
IdentOff == returned = <<>>

\* no WatchRs is constructed
SelfOff ==
    /\ current_dir = <<>>
    /\ self_status = "none"
    /\ dir_path = <<>>

\* no directory is watched
WatchOff ==
    /\ fs = [p \in Paths |-> 0]
    /\ envsteps = 0
    /\ wvariant = "none"
    /\ watchers = [w \in 1..MaxWatch |-> [pc |-> "unborn", file_names |-> <<>>]]

\* no Command Supervisor runs
SupOff ==
    /\ svariant = "none"
    /\ windows = TRUE
    /\ spc = "off"
    /\ children = [k \in 1..MaxSpawn |-> [st |-> "none", code |-> "none", app |-> "no"]]
    /\ spawns = 0
    /\ pid = NoPid
    /\ status_code = "none"
    /\ foreign = FALSE

\* no Event Coordinator runs
CoordOff ==
    /\ cpc = "off"
    /\ process_id = NoPid
    /\ reload = TRUE

\* A caller hands two vectors to get_list_differences
DiffInit ==
    /\ list \in SeqsUpTo(AllFiles, MaxLen)
    /\ comparison_list \in SeqsUpTo(AllFiles, MaxLen)
    /\ changes = <<>>
    /\ dpc = "call"
    /\ ScanOff
    /\ IdentOff
    /\ SelfOff
    /\ chan = <<>>
    /\ WatchOff
    /\ SupOff
    /\ CoordOff

CallGetListDifferences ==
    /\ dpc = "call"
    /\ changes' = get_list_differences(list, comparison_list)
    /\ dpc' = "returned"
    /\ UNCHANGED <<list, comparison_list, scanVars, returned, selfVars, envVars, chan, watchVars, supVars, coordVars>>

DiffNext == CallGetListDifferences

SpecDiff == DiffInit /\ [][DiffNext]_vars

\* ------------------------------------------------------------------------
\* File Manifest Scanner: visit_dirs and grab_directory_and_files
\* ------------------------------------------------------------------------
\* The tree under the root is a list of entries; entry i lies in the
\* directory tree[i].parent, an earlier entry or the root (0), and is a
\* file, a directory, or a directory named "target".  A path is the number
\* of its entry, the root's is 0.
Whats == {"file", "dir", "target"}

WellFormed(t) ==
    /\ \A i \in 1..Len(t) :
          /\ t[i].parent < i
          /\ t[i].parent > 0 => t[t[i].parent].what # "file"
    \* one name is borne by one entry of a directory at most
    /\ \A i, j \in 1..Len(t) :
          (t[i].parent = t[j].parent /\ t[i].what = "target" /\ t[j].what = "target")
              => i = j

Trees ==
    UNION {{t \in [1..n -> [parent : 0..(MaxEntries - 1), what : Whats]] : WellFormed(t)} :
              n \in 0..MaxEntries}

\* Path::is_dir
is_dir(file) == file = 0 \/ (file \in 1..Len(tree) /\ tree[file].what # "file")

\* std::fs::read_dir(file): the entries of a directory, in directory order
read_dir(file) ==
    SelectSeq([i \in 1..Len(tree) |-> i], LAMBDA i : tree[i].parent = file)

\* format!("{}/target", dir_path): the path of the entry of the root that
\* is named target
TargetPath ==
    IF \E i \in 1..Len(tree) : tree[i].parent = 0 /\ tree[i].what = "target"
    THEN CHOOSE i \in 1..Len(tree) : tree[i].parent = 0 /\ tree[i].what = "target"
    ELSE NoSuchEntry

\* Mutant: no directory is pruned, an ignored one is descended into as well
Pruned_never(ignored, file) == FALSE

\* !ignored_paths.contains(&file), negated
Pruned(ignored, file) == Contains(ignored, file)

\* visit_dirs(ignored_paths, file, cb): ok is FALSE when it returned Err, cb
\* is the list of the entries passed to the callback before it returned.
\* VisitEntries is the for loop over the entries of one directory.
RECURSIVE visit_dirs(_, _)
RECURSIVE VisitEntries(_, _)
visit_dirs(ignored, file) ==
    IF is_dir(file) /\ ~Pruned(ignored, file)
    THEN IF failing = file
         THEN [ok |-> FALSE, cb |-> <<>>]
         ELSE VisitEntries(ignored, read_dir(file))
    ELSE [ok |-> TRUE, cb |-> <<>>]

VisitEntries(ignored, entries) ==
    IF entries = <<>>
    THEN [ok |-> TRUE, cb |-> <<>>]
    ELSE LET path == Head(entries)
             first == IF is_dir(path)
                      THEN visit_dirs(ignored, path)
                      ELSE [ok |-> TRUE, cb |-> <<path>>]
         IN  IF first.ok
             THEN LET rest == VisitEntries(ignored, Tail(entries))
                  IN  [ok |-> rest.ok, cb |-> first.cb \o rest.cb]
             ELSE first

\* item.metadata().expect(..) in the map over dir_contents
MetadataFails(dir_contents) == Contains(dir_contents, failing)

\* utils.rs grab_directory_and_files: visit_dirs(..)? with target ignored,
\* then the metadata of every entry collected
GrabUtils ==
    LET visited == visit_dirs(<<TargetPath>>, 0)
    IN  IF ~visited.ok THEN [status |-> "err", files |-> <<>>]
        ELSE IF MetadataFails(visited.cb) THEN [status |-> "panic", files |-> <<>>]
        ELSE [status |-> "ok", files |-> visited.cb]

\* main.rs grab_directory_and_files: an Err of visit_dirs is printed and
\* the entries collected so far are carried on
GrabMain ==
    LET visited == visit_dirs(<<TargetPath>>, 0)
    IN  IF MetadataFails(visited.cb) THEN [status |-> "panic", files |-> <<>>]
        ELSE [status |-> "ok", files |-> visited.cb]

\* the paths an ignored_paths entry can be
IgnorablePaths == (0..Len(tree)) \cup {NoSuchEntry}

\* A test calls visit_dirs on the root with a list of ignored paths
CallVisitDirs ==
    /\ scanfn = "visit_dirs"
    /\ scanned.status = "call"
    /\ scanned' = LET visited == visit_dirs(ignored_paths, 0)
                  IN  [status |-> IF visited.ok THEN "ok" ELSE "err", files |-> visited.cb]
    /\ UNCHANGED <<tree, failing, scanfn, ignored_paths, ignore_paths>>

\* Mutant: --ignore replaces the list of ignored paths
ProcessIgnoreArg_replaces ==
    /\ scanfn \in {"utils", "main"}
    /\ scanned.status = "call"
    /\ Len(ignore_paths) < 1 + MaxIgnore
    /\ \E ignore_path \in IgnorablePaths : ignore_paths' = <<ignore_path>>
    /\ UNCHANGED <<tree, failing, scanfn, ignored_paths, scanned>>

\* process_args, --ignore: a path is pushed on ignore_paths
ProcessIgnoreArg ==
    /\ scanfn \in {"utils", "main"}
    /\ scanned.status = "call"
    /\ Len(ignore_paths) < 1 + MaxIgnore
    /\ \E ignore_path \in IgnorablePaths : ignore_paths' = Append(ignore_paths, ignore_path)
    /\ UNCHANGED <<tree, failing, scanfn, ignored_paths, scanned>>

\* grab_directory_and_files(dir_path) is called
CallGrab ==
    /\ scanfn \in {"utils", "main"}
    /\ scanned.status = "call"
    /\ ignored_paths' = <<TargetPath>>
    /\ scanned' = IF scanfn = "utils" THEN GrabUtils ELSE GrabMain
    /\ UNCHANGED <<tree, failing, scanfn, ignore_paths>>

\* A directory tree, one entry of which may fail to be read, and a call of
\* visit_dirs or of grab_directory_and_files on it; WatchRs::default() has
\* put <dir_path>/target on ignore_paths
ScanInit ==
    /\ DiffOff
    /\ tree \in Trees
    /\ failing \in (0..Len(tree)) \cup {NoSuchEntry}
    /\ scanfn \in {"visit_dirs", "utils", "main"}
    /\ IF scanfn = "visit_dirs"
       THEN /\ ignored_paths \in SeqsUpTo(IgnorablePaths, MaxIgnore)
            /\ ignore_paths = <<>>
       ELSE /\ ignored_paths = <<>>
            /\ ignore_paths = <<TargetPath>>
    /\ scanned = [status |-> "call", files |-> <<>>]
    /\ IdentOff
    /\ SelfOff
    /\ chan = <<>>
    /\ WatchOff
    /\ SupOff
    /\ CoordOff

ScanNext ==
    \/ (CallVisitDirs /\ UNCHANGED <<diffVars, returned, selfVars, envVars, chan, watchVars, supVars, coordVars>>)
    \/ (ProcessIgnoreArg /\ UNCHANGED <<diffVars, returned, selfVars, envVars, chan, watchVars, supVars, coordVars>>)
    \/ (CallGrab /\ UNCHANGED <<diffVars, returned, selfVars, envVars, chan, watchVars, supVars, coordVars>>)

SpecScan == ScanInit /\ [][ScanNext]_vars

\* ------------------------------------------------------------------------
\* WatcherEvent
\* ------------------------------------------------------------------------
\* names: the number of candidate executable names a Watching event carries
Event(t, p, n, f) == [type |-> t, pid |-> p, names |-> n, files |-> f]

Starting == Event("Starting", NoPid, 0, <<>>)
Watching(p, n) == Event("Watching", p, n, <<>>)
FileChanged(f) == Event("FileChanged", NoPid, 0, f)
Error == Event("Error", NoPid, 0, <<>>)
Exit == Event("Exit", NoPid, 0, <<>>)

\* Mutant: the event is put in front of the events that wait
send_in_front(c, e) == <<e>> \o c

\* Sender::send on the unbounded channel
send(c, e) == Append(c, e)

\* ------------------------------------------------------------------------
\* The watched directory and its scan
\* ------------------------------------------------------------------------
FsCreate(p) ==
    /\ envsteps < MaxEnv
    /\ fs[p] = 0
    /\ \E t \in Times : fs' = [fs EXCEPT ![p] = t]
    /\ envsteps' = envsteps + 1

FsModify(p) ==
    /\ envsteps < MaxEnv
    /\ fs[p] > 0
    /\ \E t \in Times : t > fs[p] /\ fs' = [fs EXCEPT ![p] = t]
    /\ envsteps' = envsteps + 1

FsDelete(p) ==
    /\ envsteps < MaxEnv
    /\ fs[p] > 0
    /\ fs' = [fs EXCEPT ![p] = 0]
    /\ envsteps' = envsteps + 1

\* The manifest of a successful scan: one entry per file present, in the
\* directory order (the same for the same directory content).
grab_directory_and_files(f) ==
    SelectSeq([p \in 1..MaxPath |-> Files(p, f[p])], LAMBDA e : e.time > 0)

\* main.rs: visit_dirs failed part-way, the error is printed and the entries
\* pushed before it are returned as Ok
PartialScans(f) ==
    {SubSeq(grab_directory_and_files(f), 1, k) :
        k \in 0..(Len(grab_directory_and_files(f)) - 1)}

\* ------------------------------------------------------------------------
\* Directory Watchers: utils.rs dir_watcher, runners.rs and main.rs dir_runner
\* ------------------------------------------------------------------------
\* let file_names = grab_directory_and_files(dir_path).expect(..)
WatcherBaseline(w) ==
    /\ watchers[w].pc = "baseline"
    /\ watchers' = [watchers EXCEPT ![w] =
            [pc |-> "poll", file_names |-> grab_directory_and_files(fs)]]
    /\ UNCHANGED <<envVars, chan, wvariant>>

\* a scan fails: .expect(..) on the Err of grab_directory_and_files, or on
\* the metadata of an entry, ends the watcher's thread
WatcherScanPanics(w) ==
    /\ watchers[w].pc \in {"baseline", "poll"}
    /\ watchers' = [watchers EXCEPT ![w].pc = "panicked"]
    /\ envsteps < MaxEnv
    /\ envsteps' = envsteps + 1
    /\ UNCHANGED <<fs, chan, wvariant>>

\* Mutant: the whole manifest of the rescan is sent, not the differences
DirWatcherPoll_sends_manifest(w) ==
    /\ wvariant \in {"utils", "lib"}
    /\ watchers[w].pc = "poll"
    /\ LET file_names_reloaded == grab_directory_and_files(fs)
           diff == get_list_differences(file_names_reloaded, watchers[w].file_names)
       IN  IF Len(diff) > 0
           THEN /\ chan' = send(chan, FileChanged(file_names_reloaded))
                /\ watchers' = [watchers EXCEPT ![w].pc = "done"]
           ELSE UNCHANGED <<chan, watchers>>
    /\ UNCHANGED <<envVars, wvariant>>

\* One turn of the loop of dir_watcher: rescan, diff against the baseline,
\* send the changes and break when there are any, else sleep.
DirWatcherPoll(w) ==
    /\ wvariant \in {"utils", "lib"}
    /\ watchers[w].pc = "poll"
    /\ LET file_names_reloaded == grab_directory_and_files(fs)
           diff == get_list_differences(file_names_reloaded, watchers[w].file_names)
       IN  IF Len(diff) > 0
           THEN /\ chan' = send(chan, FileChanged(diff))
                /\ watchers' = [watchers EXCEPT ![w].pc = "done"]
           ELSE UNCHANGED <<chan, watchers>>
    /\ UNCHANGED <<envVars, wvariant>>

\* Mutant: the changes are sent in every turn, also when there are none
dir_runner_turn_always_sends(w, file_names_reloaded) ==
    LET file_names == watchers[w].file_names
        file_changes ==
            SelectSeq(file_names_reloaded, LAMBDA file : ~Contains(file_names, file))
    IN  /\ watchers' = [watchers EXCEPT ![w].file_names = file_names_reloaded]
        /\ chan' = send(chan, FileChanged(file_changes))

\* One turn of the loop of dir_runner on the manifest of its rescan: the
\* entries not in the baseline are collected; when the two manifests differ
\* the baseline is replaced and the collected entries are sent.
dir_runner_turn(w, file_names_reloaded) ==
    LET file_names == watchers[w].file_names
        file_changes ==
            SelectSeq(file_names_reloaded, LAMBDA file : ~Contains(file_names, file))
    IN  IF file_names # file_names_reloaded
        THEN /\ watchers' = [watchers EXCEPT ![w].file_names = file_names_reloaded]
             /\ chan' = send(chan, FileChanged(file_changes))
        ELSE UNCHANGED <<chan, watchers>>

DirRunnerPoll(w) ==
    /\ wvariant \in {"runners", "main"}
    /\ watchers[w].pc = "poll"
    /\ dir_runner_turn(w, grab_directory_and_files(fs))
    /\ UNCHANGED <<envVars, wvariant>>

\* main.rs grab_directory_and_files: a failed traversal still returns Ok,
\* with the entries found before the failure; here as the baseline
MainPartialBaseline(w) ==
    /\ wvariant = "main"
    /\ watchers[w].pc = "baseline"
    /\ envsteps < MaxEnv
    /\ \E partial \in PartialScans(fs) :
          watchers' = [watchers EXCEPT ![w] = [pc |-> "poll", file_names |-> partial]]
    /\ envsteps' = envsteps + 1
    /\ UNCHANGED <<fs, chan, wvariant>>

\* the same in a turn of the loop of main.rs dir_runner
MainPartialPoll(w) ==
    /\ wvariant = "main"
    /\ watchers[w].pc = "poll"
    /\ envsteps < MaxEnv
    /\ \E partial \in PartialScans(fs) : dir_runner_turn(w, partial)
    /\ envsteps' = envsteps + 1
    /\ UNCHANGED <<fs, wvariant>>

\* One watcher run on its own thread, as the tests run dir_watcher
WatchInit ==
    /\ DiffOff
    /\ ScanOff
    /\ IdentOff
    /\ SelfOff
    /\ fs \in [Paths -> 0..MaxTime]
    /\ envsteps = 0
    /\ chan = <<>>
    /\ wvariant \in {"utils", "runners", "main"}
    /\ watchers = [w \in 1..MaxWatch |->
            [pc |-> IF w = 1 THEN "baseline" ELSE "unborn", file_names |-> <<>>]]
    /\ SupOff
    /\ CoordOff

otherThanWatch == <<callVars, supVars, coordVars>>

WatchNext ==
    \/ \E p \in Paths : (FsCreate(p) /\ UNCHANGED <<otherThanWatch, chan, watchVars>>)
    \/ \E p \in Paths : (FsModify(p) /\ UNCHANGED <<otherThanWatch, chan, watchVars>>)
    \/ \E p \in Paths : (FsDelete(p) /\ UNCHANGED <<otherThanWatch, chan, watchVars>>)
    \/ (WatcherBaseline(1) /\ UNCHANGED otherThanWatch)
    \/ (WatcherScanPanics(1) /\ UNCHANGED otherThanWatch)
    \/ (DirWatcherPoll(1) /\ UNCHANGED otherThanWatch)
    \/ (DirRunnerPoll(1) /\ UNCHANGED otherThanWatch)
    \/ (MainPartialBaseline(1) /\ UNCHANGED otherThanWatch)
    \/ (MainPartialPoll(1) /\ UNCHANGED otherThanWatch)

SpecWatch == WatchInit /\ [][WatchNext]_vars

\* a turn of the watcher thread that no scan failure cuts short
WatcherTurn ==
    /\ \/ WatcherBaseline(1)
       \/ DirWatcherPoll(1)
       \/ DirRunnerPoll(1)
    /\ UNCHANGED otherThanWatch

\* The watcher thread is scheduled again and again: it sleeps a second
\* between two turns of its loop and then takes the next one.
FairSpecWatch == SpecWatch /\ WF_vars(WatcherTurn)

\* ------------------------------------------------------------------------
\* The processes the Command Supervisor deals with
\* ------------------------------------------------------------------------
\* the processes of the process table whose name equals the candidate name
Table ==
    {AppPid(k) : k \in {j \in 1..MaxSpawn : children[j].app = "up"}}
        \cup (IF foreign THEN {ForeignPid} ELSE {})

\* the run command of the k-th spawn has built the executable and started it
AppStart(k) ==
    /\ children[k].st = "running"
    /\ children[k].app = "no"
    /\ children' = [children EXCEPT ![k].app = "up"]
    /\ UNCHANGED <<envsteps, svariant, windows, spc, spawns, pid, status_code, foreign>>

\* The k-th child ends.  `cargo run` ends with code 0 only when its
\* executable ran and was not killed (app is "killed" once the Coordinator
\* has killed it); status.code() is None ("signal") when the child was
\* ended by a signal.
ChildExit(k, code) ==
    /\ children[k].st = "running"
    /\ code = "zero" => children[k].app = "up"
    /\ children' = [children EXCEPT ![k] =
            [st |-> "exited", code |-> code,
             app |-> IF children[k].app = "up" THEN "gone" ELSE children[k].app]]
    /\ UNCHANGED <<envsteps, svariant, windows, spc, spawns, pid, status_code, foreign>>

\* a process that is no child of the supervisor takes or gives up the name
ForeignToggle ==
    /\ foreign' = ~foreign
    /\ UNCHANGED <<envsteps, svariant, windows, spc, children, spawns, pid, status_code>>

\* ------------------------------------------------------------------------
\* Command Supervisors: lib.rs spawn_command_runner, and cmd_runner of
\* runners.rs, utils.rs and main.rs
\* ------------------------------------------------------------------------
\* cfg!(target_os = "windows") guards the whole body in utils.rs and main.rs
OnPlatform == svariant \in {"utils", "main"} => windows

\* utils.rs, main.rs off Windows: cmd_runner does nothing and returns
CmdRunnerSkipped ==
    /\ spc = "spawn"
    /\ ~OnPlatform
    /\ spc' = "done"
    /\ UNCHANGED <<envsteps, svariant, windows, children, spawns, pid, status_code, foreign, chan>>

\* where the supervisor goes once Command::new("cargo").args(["run"]) is spawned
AfterSpawn ==
    CASE svariant = "lib" -> "lookup"
      [] svariant = "utils" -> "exe_dir"
      [] svariant = "runners" -> "toml"
      [] svariant = "main" -> "wait"

\* the run command is spawned
SpawnChild ==
    /\ spc = "spawn"
    /\ OnPlatform
    /\ spawns < MaxSpawn
    /\ spawns' = spawns + 1
    /\ children' = [children EXCEPT ![spawns + 1] =
            [st |-> "running", code |-> "none", app |-> "no"]]
    /\ spc' = AfterSpawn
    /\ UNCHANGED <<envsteps, svariant, windows, pid, status_code, foreign, chan>>

\* Spawning fails: lib.rs and utils.rs panic in .expect(..), runners.rs
\* returns the error with `?`, main.rs finds it as the Err of output().
OnSpawnFailure ==
    CASE svariant \in {"lib", "utils"} ->
            /\ spc' = "spawn_panic"
            /\ UNCHANGED <<status_code, chan>>
      [] svariant = "runners" ->
            /\ spc' = "spawn_err"
            /\ UNCHANGED <<status_code, chan>>
      [] svariant = "main" ->
            /\ spc' = "classify"
            /\ status_code' = "err"
            /\ UNCHANGED chan

SpawnFails ==
    /\ spc = "spawn"
    /\ envsteps < MaxEnv
    /\ envsteps' = envsteps + 1
    /\ OnPlatform
    /\ OnSpawnFailure
    /\ UNCHANGED <<svariant, windows, children, spawns, pid, foreign>>

\* utils.rs get_executable_from_dir: the first *.exe of target/debug, the
\* empty string when there is none (no process has that name), a panic
\* when the directory cannot be read
UtilsExeDir ==
    /\ spc = "exe_dir"
    /\ spc' \in {"lookup", "lookup_never", "exe_panic"}
    /\ UNCHANGED <<envsteps, svariant, windows, children, spawns, pid, status_code, foreign, chan>>

\* runners.rs: Cargo.toml is read and parsed, a panic when that fails
RunnersToml ==
    /\ spc = "toml"
    /\ spc' \in {"poll", "toml_panic"}
    /\ UNCHANGED <<envsteps, svariant, windows, children, spawns, pid, status_code, foreign, chan>>

\* Mutant: the polling gives up and returns the placeholder pid
get_executable_id_gives_up ==
    /\ spc = "lookup"
    /\ \E found \in Table \cup {NoPid} : pid' = found
    /\ spc' = "send_watching"
    /\ UNCHANGED <<envsteps, svariant, windows, children, spawns, status_code, foreign, chan>>

\* get_executable_id: poll the process table until a process of the
\* candidate name is in it, return the first one met
get_executable_id ==
    /\ spc = "lookup"
    /\ \E found \in Table : pid' = found
    /\ spc' = "send_watching"
    /\ UNCHANGED <<envsteps, svariant, windows, children, spawns, status_code, foreign, chan>>

\* Mutant: Watching is sent twice for one spawn
SendWatching_twice ==
    /\ spc = "send_watching"
    /\ \E n \in 1..MaxNames :
          chan' = send(send(chan, Watching(pid, IF svariant = "lib" THEN n ELSE 0)),
                       Watching(pid, IF svariant = "lib" THEN n ELSE 0))
    /\ spc' = "wait"
    /\ UNCHANGED <<envsteps, svariant, windows, children, spawns, pid, status_code, foreign>>

\* event.send(WatcherEvent::Watching(pid, ..))
SendWatching ==
    /\ spc = "send_watching"
    /\ \E n \in 1..MaxNames :
          chan' = send(chan, Watching(pid, IF svariant = "lib" THEN n ELSE 0))
    /\ spc' = "wait"
    /\ UNCHANGED <<envsteps, svariant, windows, children, spawns, pid, status_code, foreign>>

\* runners.rs: poll until exactly one process has the package name, then
\* send Watching with the id of the spawned child
RunnersPoll ==
    /\ spc = "poll"
    /\ Cardinality(Table) = 1
    /\ chan' = send(chan, Watching(CargoPid(spawns), 0))
    /\ spc' = "wait"
    /\ UNCHANGED <<envsteps, svariant, windows, children, spawns, pid, status_code, foreign>>

\* child_process.wait_with_output() returns Ok(output) once the child ended
WaitReturns ==
    /\ spc = "wait"
    /\ children[spawns].st = "exited"
    /\ status_code' = children[spawns].code
    /\ spc' = "classify"
    /\ UNCHANGED <<envsteps, svariant, windows, children, spawns, pid, foreign, chan>>

\* child_process.wait_with_output() returns Err(e)
WaitFails ==
    /\ spc = "wait"
    /\ envsteps < MaxEnv
    /\ envsteps' = envsteps + 1
    /\ status_code' = "err"
    /\ spc' = "classify"
    /\ UNCHANGED <<svariant, windows, children, spawns, pid, foreign, chan>>

\* Mutant: a child that ended with code 0 is started again
Classified_respawn_on_zero(variant, status) ==
    CASE status = "zero" -> [ev |-> <<Exit>>, to |-> "spawn"]
      [] status = "nonzero" -> [ev |-> <<Starting>>, to |-> "spawn"]
      [] status = "signal" -> [ev |-> <<>>, to |-> "spawn"]
      [] status = "err" -> [ev |-> <<Error>>, to |-> "spawn"]

\* The match on the result of the wait: the events sent and where the
\* supervisor goes, "spawn" for another turn of its loop and "done" for break.
Classified(variant, status) ==
    CASE variant \in {"lib", "utils"} ->
            (CASE status = "zero" -> [ev |-> <<Exit>>, to |-> "done"]
               [] status = "nonzero" -> [ev |-> <<Starting>>, to |-> "spawn"]
               [] status = "signal" -> [ev |-> <<>>, to |-> "spawn"]
               [] status = "err" -> [ev |-> <<Error>>, to |-> "spawn"])
      [] variant = "runners" ->
            (CASE status = "zero" -> [ev |-> <<Exit>>, to |-> "done"]
               [] status = "nonzero" -> [ev |-> <<Starting>>, to |-> "done"]
               [] status = "signal" -> [ev |-> <<>>, to |-> "spawn"]
               [] status = "err" -> [ev |-> <<Error>>, to |-> "done"])
      [] variant = "main" ->
            (CASE status = "err" -> [ev |-> <<Error>>, to |-> "done"]
               [] OTHER -> [ev |-> <<Exit>>, to |-> "done"])

\* Mutant: a child ended by a signal is reported like one that failed
Classify_reports_signal ==
    /\ spc = "classify"
    /\ chan' = chan \o (IF status_code = "signal" THEN <<Starting>>
                        ELSE Classified(svariant, status_code).ev)
    /\ spc' = Classified(svariant, status_code).to
    /\ status_code' = "none"
    /\ UNCHANGED <<envsteps, svariant, windows, children, spawns, pid, foreign>>

\* the supervisor acts on the result of the wait
Classify ==
    /\ spc = "classify"
    /\ chan' = chan \o Classified(svariant, status_code).ev
    /\ spc' = Classified(svariant, status_code).to
    /\ status_code' = "none"
    /\ UNCHANGED <<envsteps, svariant, windows, children, spawns, pid, foreign>>

\* A Command Supervisor on its own thread, no one receiving
SupInit ==
    /\ DiffOff
    /\ ScanOff
    /\ IdentOff
    /\ SelfOff
    /\ WatchOff
    /\ CoordOff
    /\ chan = <<>>
    /\ svariant \in {"lib", "runners", "utils", "main"}
    /\ windows \in BOOLEAN
    /\ spc = "spawn"
    /\ children = [k \in 1..MaxSpawn |-> [st |-> "none", code |-> "none", app |-> "no"]]
    /\ spawns = 0
    /\ pid = NoPid
    /\ status_code = "none"
    /\ foreign \in BOOLEAN

otherThanSup == <<callVars, fs, watchVars, coordVars>>

SupNext ==
    \/ \E k \in 1..MaxSpawn : (AppStart(k) /\ UNCHANGED <<otherThanSup, chan>>)
    \/ \E k \in 1..MaxSpawn : \E code \in {"zero", "nonzero", "signal"} :
            (ChildExit(k, code) /\ UNCHANGED <<otherThanSup, chan>>)
    \/ (ForeignToggle /\ UNCHANGED <<otherThanSup, chan>>)
    \/ (CmdRunnerSkipped /\ UNCHANGED otherThanSup)
    \/ (SpawnChild /\ UNCHANGED otherThanSup)
    \/ (SpawnFails /\ UNCHANGED otherThanSup)
    \/ (UtilsExeDir /\ UNCHANGED otherThanSup)
    \/ (RunnersToml /\ UNCHANGED otherThanSup)
    \/ (get_executable_id /\ UNCHANGED otherThanSup)
    \/ (SendWatching /\ UNCHANGED otherThanSup)
    \/ (RunnersPoll /\ UNCHANGED otherThanSup)
    \/ (WaitReturns /\ UNCHANGED otherThanSup)
    \/ (WaitFails /\ UNCHANGED otherThanSup)
    \/ (Classify /\ UNCHANGED otherThanSup)

SpecSup == SupInit /\ [][SupNext]_vars

\* ------------------------------------------------------------------------
\* The Process Identifier on its own: utils.rs get_executable_id, and the
\* polling of the process table inlined in runners.rs cmd_runner
\* ------------------------------------------------------------------------
\* get_executable_id(exe_name) returns: the table of its last poll and the
\* pid it gives back.  sys.processes() is a HashMap, the process met first
\* is any of those of the candidate name.
CallGetExecutableId ==
    /\ Len(returned) < MaxCalls
    /\ get_executable_id
    /\ returned' = Append(returned, [table |-> Table, pid |-> pid'])

\* the caller has the pid and calls get_executable_id once more
CallAgain ==
    /\ svariant = "utils"
    /\ spc = "send_watching"
    /\ Len(returned) < MaxCalls
    /\ spc' = "lookup"
    /\ UNCHANGED <<envsteps, svariant, windows, children, spawns, pid, status_code, foreign, chan, returned>>

\* runners.rs: the polling ends and the pid put in Watching is the result
CallRunnersPoll ==
    /\ Len(returned) < MaxCalls
    /\ RunnersPoll
    /\ returned' = Append(returned, [table |-> Table, pid |-> chan'[Len(chan')].pid])

\* Processes that may take the candidate name, and a caller about to
\* identify the executable: a test that calls get_executable_id, or
\* runners.rs cmd_runner with its child spawned and Cargo.toml read
IdentInit ==
    /\ DiffOff
    /\ ScanOff
    /\ returned = <<>>
    /\ SelfOff
    /\ WatchOff
    /\ CoordOff
    /\ chan = <<>>
    /\ svariant \in {"utils", "runners"}
    /\ windows = TRUE
    /\ spc = (IF svariant = "utils" THEN "lookup" ELSE "poll")
    /\ children = [k \in 1..MaxSpawn |-> [st |-> "running", code |-> "none", app |-> "no"]]
    /\ spawns = MaxSpawn
    /\ pid = NoPid
    /\ status_code = "none"
    /\ foreign \in BOOLEAN

otherThanIdent == <<diffVars, scanVars, selfVars, fs, watchVars, coordVars>>

IdentNext ==
    \/ \E k \in 1..MaxSpawn : (AppStart(k) /\ UNCHANGED <<otherThanSup, chan>>)
    \/ \E k \in 1..MaxSpawn : \E code \in {"zero", "nonzero", "signal"} :
            (ChildExit(k, code) /\ UNCHANGED <<otherThanSup, chan>>)
    \/ (ForeignToggle /\ UNCHANGED <<otherThanSup, chan>>)
    \/ (CallGetExecutableId /\ UNCHANGED otherThanIdent)
    \/ (CallAgain /\ UNCHANGED otherThanIdent)
    \/ (CallRunnersPoll /\ UNCHANGED otherThanIdent)

SpecIdent == IdentInit /\ [][IdentNext]_vars

\* ------------------------------------------------------------------------
\* Event Coordinator: lib.rs begin_watching and event_handler
\* ------------------------------------------------------------------------
\* the first watcher slot not used yet
FreeWatcher == CHOOSE w \in 1..MaxWatch :
    /\ watchers[w].pc = "unborn"
    /\ \A v \in 1..(w - 1) : watchers[v].pc # "unborn"

\* Mutant: a DirWatcher thread is started for every thread not started yet
spawn_directory_watcher_all(c) ==
    /\ \E w \in 1..MaxWatch : watchers[w].pc = "unborn"
    /\ chan' = send(c, Starting)
    /\ watchers' = [w \in 1..MaxWatch |->
            IF watchers[w].pc = "unborn" THEN [watchers[w] EXCEPT !.pc = "baseline"]
            ELSE watchers[w]]

\* spawn_directory_watcher: Starting is sent on the channel c, then a
\* DirWatcher thread is started
spawn_directory_watcher(c) ==
    /\ \E w \in 1..MaxWatch : watchers[w].pc = "unborn"
    /\ chan' = send(c, Starting)
    /\ watchers' = [watchers EXCEPT ![FreeWatcher].pc = "baseline"]

\* Mutant: the CommandRunner thread is started whatever reload says
BeginWatching_always_reloads ==
    /\ cpc = "begin"
    /\ spawn_directory_watcher(chan)
    /\ spc' = "spawn"
    /\ cpc' = "recv"
    /\ UNCHANGED <<envVars, wvariant, svariant, windows, children, spawns, pid,
                   status_code, foreign, process_id, reload>>

\* begin_watching up to the call of event_handler: the watcher is started,
\* and the CommandRunner thread when reload is set
BeginWatching ==
    /\ cpc = "begin"
    /\ spawn_directory_watcher(chan)
    /\ spc' = IF reload THEN "spawn" ELSE spc
    /\ cpc' = "recv"
    /\ UNCHANGED <<envVars, wvariant, svariant, windows, children, spawns, pid,
                   status_code, foreign, process_id, reload>>

\* the event self.watcher.recv() returns
Received == Head(chan)

\* Mutant: the pid of a Watching event is not recorded
HandleWatching_forgets ==
    /\ cpc = "recv"
    /\ chan # <<>>
    /\ Received.type = "Watching"
    /\ chan' = Tail(chan)
    /\ cpc' = IF Received.names = 0 THEN "panicked" ELSE "recv"
    /\ UNCHANGED <<envVars, watchVars, supVars, process_id, reload>>

\* WatcherEvent::Watching(process_id, exe_names): the pid is recorded;
\* exe_names[0] is printed unless there are several names
HandleWatching ==
    /\ cpc = "recv"
    /\ chan # <<>>
    /\ Received.type = "Watching"
    /\ chan' = Tail(chan)
    /\ process_id' = Received.pid
    /\ cpc' = IF Received.names = 0 THEN "panicked" ELSE "recv"
    /\ UNCHANGED <<envVars, watchVars, supVars, reload>>

\* process.kill() on the process of id p
kill(p) ==
    /\ children' = [k \in 1..MaxSpawn |->
            IF p = AppPid(k) THEN [children[k] EXCEPT !.app = "killed"] ELSE children[k]]
    /\ foreign' = IF p = ForeignPid THEN FALSE ELSE foreign

\* Mutant: the recorded pid is killed without a look at the process table
HandleFileChanged_kills_blindly ==
    /\ cpc = "recv"
    /\ chan # <<>>
    /\ Received.type = "FileChanged"
    /\ IF process_id # NoPid
       THEN kill(process_id)
       ELSE UNCHANGED <<children, foreign>>
    /\ spawn_directory_watcher(Tail(chan))
    /\ UNCHANGED <<envVars, wvariant, svariant, windows, spc, spawns, pid,
                   status_code, coordVars>>

\* WatcherEvent::FileChanged(files): the process of the recorded pid is
\* killed if there is one in the process table, then the watcher is
\* started again
HandleFileChanged ==
    /\ cpc = "recv"
    /\ chan # <<>>
    /\ Received.type = "FileChanged"
    /\ IF process_id # NoPid /\ process_id \in Table
       THEN kill(process_id)
       ELSE UNCHANGED <<children, foreign>>
    /\ spawn_directory_watcher(Tail(chan))
    /\ UNCHANGED <<envVars, wvariant, svariant, windows, spc, spawns, pid,
                   status_code, coordVars>>

\* WatcherEvent::Error(err): the message is printed, the loop goes on
HandleError ==
    /\ cpc = "recv"
    /\ chan # <<>>
    /\ Received.type = "Error"
    /\ chan' = Tail(chan)
    /\ UNCHANGED <<envVars, watchVars, supVars, coordVars>>

\* Mutant: Exit is handled like the events that only print, the loop goes on
HandleExit_continues ==
    /\ cpc = "recv"
    /\ chan # <<>>
    /\ Received.type = "Exit"
    /\ chan' = Tail(chan)
    /\ UNCHANGED <<envVars, watchVars, supVars, coordVars>>

\* WatcherEvent::Exit: break; begin_watching returns Ok(())
HandleExit ==
    /\ cpc = "recv"
    /\ chan # <<>>
    /\ Received.type = "Exit"
    /\ chan' = Tail(chan)
    /\ cpc' = "done"
    /\ UNCHANGED <<envVars, watchVars, supVars, process_id, reload>>

\* _ => (): Starting, Stopping and Stopped
HandleOther ==
    /\ cpc = "recv"
    /\ chan # <<>>
    /\ Received.type \in {"Starting", "Stopping", "Stopped"}
    /\ chan' = Tail(chan)
    /\ UNCHANGED <<envVars, watchVars, supVars, coordVars>>

\* the threads run as long as the main thread has not returned or panicked
ProgramRuns == cpc \in {"begin", "recv"}

\* the directories the program can be started in: one whose name is valid
\* Unicode and one whose name holds a unit that is not
Dirs == {<<"w">>, <<"w", "invalid">>}

\* OsStr::to_string_lossy: the units that are not valid Unicode are
\* replaced by U+FFFD
to_string_lossy(os_str) ==
    [i \in 1..Len(os_str) |-> IF os_str[i] = "invalid" THEN "U+FFFD" ELSE os_str[i]]

\* Mutant: a new WatchRs has the status Starting
Default_starting ==
    /\ self_status = "Starting"
    /\ process_id = NoPid
    /\ dir_path = to_string_lossy(current_dir)

\* WatchRs::default(): the fields status, process_id and dir_path of the new
\* WatchRs
Default ==
    /\ self_status = "Stopped"
    /\ process_id = NoPid
    /\ dir_path = to_string_lossy(current_dir)

\* WatchRs::default() followed by process_args: reload is cleared by
\* --no-reload.  The directory holds one file and no
\* other process has the candidate name.
Init ==
    /\ DiffOff
    /\ ScanOff
    /\ IdentOff
    /\ current_dir \in Dirs
    /\ Default
    /\ fs = [p \in Paths |-> IF p = 1 THEN 1 ELSE 0]
    /\ envsteps = 0
    /\ chan = <<>>
    /\ wvariant = "lib"
    /\ watchers = [w \in 1..MaxWatch |-> [pc |-> "unborn", file_names |-> <<>>]]
    /\ svariant = "lib"
    /\ windows = TRUE
    /\ spc = "off"
    /\ children = [k \in 1..MaxSpawn |-> [st |-> "none", code |-> "none", app |-> "no"]]
    /\ spawns = 0
    /\ pid = NoPid
    /\ status_code = "none"
    /\ foreign = FALSE
    /\ cpc = "begin"
    /\ reload \in BOOLEAN

\* the steps of the Command Supervisor thread
SupervisorStep ==
    /\ ProgramRuns
    /\ \/ SpawnChild
       \/ SpawnFails
       \/ get_executable_id
       \/ SendWatching
       \/ WaitReturns
       \/ WaitFails
       \/ Classify
    /\ UNCHANGED <<callVars, fs, watchVars, coordVars>>

\* the steps of the DirWatcher thread w
WatcherStep(w) ==
    /\ ProgramRuns
    /\ \/ WatcherBaseline(w)
       \/ WatcherScanPanics(w)
       \/ DirWatcherPoll(w)
    /\ UNCHANGED <<callVars, supVars, coordVars>>

\* the steps of the main thread
CoordinatorStep ==
    /\ \/ BeginWatching
       \/ HandleWatching
       \/ HandleFileChanged
       \/ HandleError
       \/ HandleExit
       \/ HandleOther
    /\ UNCHANGED callVars

\* what the files and the processes do by themselves
EnvironmentStep ==
    \/ \E p \in Paths : (FsCreate(p) /\ UNCHANGED <<otherThanWatch, chan, watchVars>>)
    \/ \E p \in Paths : (FsModify(p) /\ UNCHANGED <<otherThanWatch, chan, watchVars>>)
    \/ \E p \in Paths : (FsDelete(p) /\ UNCHANGED <<otherThanWatch, chan, watchVars>>)
    \/ \E k \in 1..MaxSpawn : (AppStart(k) /\ UNCHANGED <<otherThanSup, chan>>)
    \/ \E k \in 1..MaxSpawn : \E code \in {"zero", "nonzero", "signal"} :
            (ChildExit(k, code) /\ UNCHANGED <<otherThanSup, chan>>)


Next ==
    \/ CoordinatorStep
    \/ SupervisorStep
    \/ \E w \in 1..MaxWatch : WatcherStep(w)
    \/ EnvironmentStep

Spec == Init /\ [][Next]_vars

\* ------------------------------------------------------------------------
\* event_handler on its own: events sent through WatchRs.event, which is
\* pub, and the Coordinator receiving them
\* ------------------------------------------------------------------------
\* the events a holder of the Sender can send; a Watching event carries any
\* list of names, the empty one too
SendableEvents ==
    {Starting, Error, Exit, FileChanged(<<Files(1, 1)>>)}
        \cup {Watching(AppPid(1), n) : n \in 0..MaxNames}

\* A WatchRs whose channel holds events, event_handler about to be called
HandlerInit ==
    /\ DiffOff
    /\ ScanOff
    /\ IdentOff
    /\ current_dir \in Dirs
    /\ Default
    /\ fs = [p \in Paths |-> IF p = 1 THEN 1 ELSE 0]
    /\ envsteps = 0
    /\ chan \in SeqsUpTo(SendableEvents, MaxLen)
    /\ wvariant = "lib"
    /\ watchers = [w \in 1..MaxWatch |-> [pc |-> "unborn", file_names |-> <<>>]]
    /\ svariant = "lib"
    /\ windows = TRUE
    /\ spc = "off"
    /\ children = [k \in 1..MaxSpawn |-> [st |-> "none", code |-> "none", app |-> "no"]]
    /\ spawns = 0
    /\ pid = NoPid
    /\ status_code = "none"
    /\ foreign = FALSE
    /\ cpc = "recv"
    /\ reload = TRUE

HandlerNext ==
    \/ (HandleWatching /\ UNCHANGED callVars)
    \/ (HandleFileChanged /\ UNCHANGED callVars)
    \/ (HandleError /\ UNCHANGED callVars)
    \/ (HandleExit /\ UNCHANGED callVars)
    \/ (HandleOther /\ UNCHANGED callVars)

SpecHandler == HandlerInit /\ [][HandlerNext]_vars

\* a child whose executable was killed ends
KilledChildExits(k) ==
    /\ children[k].app = "killed"
    /\ \E code \in {"nonzero", "signal"} : ChildExit(k, code)
    /\ UNCHANGED <<otherThanSup, chan>>

\* Every thread of the program that can take a step takes one in the end,
\* and the operating system ends a child whose executable was killed.
FairSpec ==
    /\ Spec
    /\ WF_vars(CoordinatorStep)
    /\ WF_vars(SupervisorStep)
    /\ \A w \in 1..MaxWatch : WF_vars(WatcherStep(w))
    /\ \A k \in 1..MaxSpawn : WF_vars(KilledChildExits(k))

\* ------------------------------------------------------------------------
\* Properties of the Manifest Differ
\* ------------------------------------------------------------------------
Returned == dpc = "returned"

\* C2: for every manifest M, duplicates included, get_list_differences(M, M)
\* is the empty list.
C2_DiffSelfEmpty == (Returned /\ list = comparison_list) => changes = <<>>

C2_Witness ==
    /\ Returned
    /\ list = comparison_list
    /\ Len(list) = 3
    /\ list[1] = list[3]
    /\ list[1] # list[2]

\* the entries of the current list that are not in the previous one
Added == Range(list) \ Range(comparison_list)

\* list is comparison_list with the entries of Added inserted at any positions
IsMergeOfAdded ==
    SelectSeq(list, LAMBDA item : Contains(comparison_list, item)) = comparison_list

\* C3: when the current list is M with a set A of entries, none in M,
\* inserted at any positions, get_list_differences(M u A, M) is A as a set.
C3_DiffAddedOnly == (Returned /\ IsMergeOfAdded) => Range(changes) = Added

C3_Witness ==
    /\ Returned
    /\ IsMergeOfAdded
    /\ Len(comparison_list) = 1
    /\ Len(list) = 3
    /\ Cardinality(Added) = 2
    /\ list[2] = comparison_list[1]

\* current and previous differ only in the time of the entry at position i
OnlyTimeChangedAt(i) ==
    /\ Len(list) = Len(comparison_list)
    /\ i \in 1..Len(list)
    /\ list[i].name = comparison_list[i].name
    /\ list[i].path = comparison_list[i].path
    /\ list[i].time # comparison_list[i].time
    /\ \A j \in 1..Len(list) : j # i => list[j] = comparison_list[j]

\* a manifest of one scan pass: no path is listed twice
OnePerPath(s) ==
    \A i, j \in 1..Len(s) : s[i].path = s[j].path => i = j

\* C4: when the current manifest differs from the previous one only in the
\* time of one entry, get_list_differences(current, previous) is exactly that
\* entry with its new time.
C4_TimeChangeReported ==
    \A i \in 1..MaxLen :
        (Returned /\ OnePerPath(comparison_list) /\ OnlyTimeChangedAt(i))
            => changes = <<list[i]>>

C4_Witness ==
    /\ Returned
    /\ OnePerPath(comparison_list)
    /\ OnlyTimeChangedAt(2)
    /\ Len(list) = 2
    /\ changes = <<list[2]>>

\* C5: the diff is asymmetric: every returned entry is an entry of the
\* current list, so an entry of the previous list that is absent from the
\* current list is never returned.
C5_DiffAsymmetric ==
    Returned =>
        /\ \A k \in 1..Len(changes) : Contains(list, changes[k])
        /\ \A k \in 1..Len(comparison_list) :
              ~Contains(list, comparison_list[k]) => ~Contains(changes, comparison_list[k])

C5_Witness ==
    /\ Returned
    /\ \E k \in 1..Len(comparison_list) : ~Contains(list, comparison_list[k])
    /\ Len(changes) >= 1
    /\ Len(changes) < Len(list)

\* ------------------------------------------------------------------------
\* Properties of the Directory Watchers
\* ------------------------------------------------------------------------
\* C6: every FileChanged event a watcher places on the channel carries at
\* least one entry, a change that only deletes files included.
C6_FileChangedNonEmpty ==
    \A i \in 1..Len(chan) : chan[i].type = "FileChanged" => Len(chan[i].files) > 0

\* ------------------------------------------------------------------------
\* Properties of the Command Supervisors
\* ------------------------------------------------------------------------
\* the number of Exit events sent so far (no one receives in SpecSup)
NumExit == Cardinality({i \in 1..Len(chan) : chan[i].type = "Exit"})

\* the supervisor acts on the result of its wait
Classifies == spc = "classify" /\ spc' # "classify"

\* C7: when the child ends with code 0 the supervisor sends Exit, once,
\* leaves its loop and spawns no further child.
C7_ZeroExitStops ==
    /\ [](NumExit <= 1 /\ (NumExit = 1 => spc = "done"))
    /\ [][(Classifies /\ status_code = "zero")
            => (chan' = send(chan, Exit) /\ spc' = "done")]_vars
    /\ [][spc = "done" => (spc' = "done" /\ spawns' = spawns)]_vars

C7_Witness ==
    /\ svariant = "lib"
    /\ spc = "done"
    /\ spawns = 2
    /\ children[1].code = "nonzero"
    /\ children[2].code = "zero"
    /\ NumExit = 1

\* C8: when the child ends with a non-zero code the supervisor sends
\* Starting and goes on to spawn the run command again.
C8_NonZeroRespawns ==
    [][(Classifies /\ status_code = "nonzero")
        => (chan' = send(chan, Starting) /\ spc' = "spawn")]_vars

\* C9: when spawning the run command fails, an Error event is placed on
\* the channel.
C9_SpawnFailureReported ==
    spc \in {"spawn_panic", "spawn_err"} => (chan # <<>> /\ chan[Len(chan)] = Error)

\* ------------------------------------------------------------------------
\* Properties of the whole program of lib.rs
\* ------------------------------------------------------------------------
\* the Coordinator has handled a FileChanged event while the executable of
\* the k-th child was the tracked process and was running, and killed it
KilledOnChange(k) == children[k].app = "killed"

\* C1: with reload set and the tracked child running, every FileChanged
\* event the Coordinator handles is followed in the end by the supervisor
\* spawning a new child.
C1_ChangeRespawns ==
    \A k \in 1..(MaxSpawn - 1) : KilledOnChange(k) ~> (spawns > k)

\* the Coordinator takes an Error event from the channel
HandlesError == cpc = "recv" /\ chan # <<>> /\ Received.type = "Error" /\ chan' = Tail(chan)

\* C10: on an Error event the Coordinator ends the program with a non-zero
\* exit status and handles no further event.
C10_ErrorTerminates == [][HandlesError => cpc' = "failed"]_vars

\* the Coordinator takes an Exit event from the channel
HandlesExit == cpc = "recv" /\ chan # <<>> /\ Received.type = "Exit" /\ chan' = Tail(chan)

\* C11: on an Exit event the Coordinator leaves its receive loop and
\* begin_watching returns Ok(()): the program ends with status zero, no
\* further event is handled and no thread of the program runs on.
C11_ExitTerminates ==
    /\ [][HandlesExit => cpc' = "done"]_vars
    /\ [][cpc = "done" =>
            UNCHANGED <<chan, watchers, spc, spawns, pid, status_code, coordVars>>]_vars

C11_Witness ==
    /\ cpc = "done"
    /\ spawns = 2
    /\ children[2].code = "zero"
    /\ chan # <<>>

\* the thread of some Directory Watcher has ended on a failed scan
ScanFailed == \E w \in 1..MaxWatch : watchers[w].pc = "panicked"

\* C12: when a Directory Watcher thread ends because a scan fails, the
\* Coordinator does not wait on the channel for ever: in the end it leaves
\* its receive loop, as it is to do on an Error event.
C12_ScanFailureEndsProgram == ScanFailed ~> ~ProgramRuns

\* the children of the supervisor that have been spawned and have not ended
Alive == {k \in 1..MaxSpawn : children[k].st = "running"}

\* C13: the Command Supervisor never has two of its children alive at once.
C13_OneChildAlive == Cardinality(Alive) <= 1

\* the Coordinator takes a Watching event from the channel
HandlesWatching ==
    cpc = "recv" /\ chan # <<>> /\ Received.type = "Watching" /\ chan' = Tail(chan)

\* C14: process_id is None until a Watching event is handled and then the
\* pid of the Watching event handled last: it starts as None, handling
\* Watching sets it to the pid of the event, and no other step of the
\* Coordinator or of any other thread changes it.
C14_ProcessIdFrame ==
    /\ process_id = NoPid
    /\ [][IF HandlesWatching
            THEN process_id' = Received.pid
            ELSE process_id' = process_id]_vars

C14_Witness ==
    /\ process_id = AppPid(2)
    /\ watchers[2].pc # "unborn"
    /\ chan # <<>>

\* the Coordinator takes a FileChanged event from the channel
HandlesFileChanged ==
    /\ cpc = "recv"
    /\ chan # <<>>
    /\ Received.type = "FileChanged"
    /\ chan' \in {Tail(chan), send(Tail(chan), Starting)}

\* a process of id p is running
ProcessExists(p) ==
    \/ \E k \in 1..MaxSpawn : p = AppPid(k) /\ children[k].app = "up"
    \/ p = ForeignPid /\ foreign

\* the watcher threads started by the step
FreshWatchers ==
    {w \in 1..MaxWatch : watchers[w].pc = "unborn" /\ watchers'[w].pc = "baseline"}

\* C15: on a FileChanged event the Coordinator kills the process of
\* process_id when process_id is set and that process exists, and no
\* process otherwise; in either case it goes on receiving and starts one
\* fresh Directory Watcher, announced by Starting.
C15_KillIfExistsAndRearm ==
    [][HandlesFileChanged =>
        /\ IF process_id # NoPid /\ ProcessExists(process_id)
           THEN /\ ~ProcessExists(process_id)'
                /\ \A k \in 1..MaxSpawn :
                      process_id # AppPid(k) => children'[k] = children[k]
                /\ process_id # ForeignPid => foreign' = foreign
           ELSE UNCHANGED <<children, foreign>>
        /\ cpc' = "recv"
        /\ chan' = send(Tail(chan), Starting)
        /\ Cardinality(FreshWatchers) = 1
        /\ \A w \in 1..MaxWatch : w \notin FreshWatchers => watchers'[w] = watchers[w]
      ]_vars

C15_Witness ==
    /\ process_id = AppPid(1)
    /\ children[1].app = "killed"
    /\ watchers[3].pc # "unborn"

\* a Directory Watcher places an event on the channel (no one else sends
\* and no one receives in SpecWatch)
WatcherReports == chan' # chan

\* C16: a Directory Watcher that has sent a FileChanged event keeps
\* polling, so that a later change is reported by the same invocation.
C16_WatcherKeepsPolling == [][WatcherReports => watchers'[1].pc = "poll"]_vars

\* since dir_watcher of utils.rs took its baseline the file of path p was
\* created and nothing else has changed
OneCreated(p) ==
    /\ wvariant = "utils"
    /\ watchers[1].pc = "poll"
    /\ fs[p] > 0
    /\ watchers[1].file_names = grab_directory_and_files([fs EXCEPT ![p] = 0])

\* C17: when one file was created after dir_watcher took its baseline and
\* nothing else changed, the turn of dir_watcher that completes sends one
\* FileChanged event, whose payload is the entry of that file alone, and
\* dir_watcher returns; and under a fair schedule that turn comes, unless
\* the directory changes again or the scan fails first.
C17_OneCreationOneEvent ==
    /\ [][\A p \in Paths :
            (OneCreated(p) /\ watchers' # watchers /\ watchers'[1].pc # "panicked")
              => /\ chan' = send(chan, FileChanged(<<Files(p, fs[p])>>))
                 /\ watchers'[1].pc = "done"]_vars
    /\ [](wvariant = "utils" =>
            /\ Len(chan) <= 1
            /\ Len(chan) = 1 <=> watchers[1].pc = "done")
    /\ \A p \in Paths :
          OneCreated(p) ~> (watchers[1].pc \in {"done", "panicked"} \/ ~OneCreated(p))

C17_Witness ==
    /\ wvariant = "utils"
    /\ watchers[1].pc = "done"
    /\ fs[1] > 0
    /\ fs[2] > 0
    /\ watchers[1].file_names = <<Files(1, fs[1])>>
    /\ chan = <<FileChanged(<<Files(2, fs[2])>>)>>

\* ------------------------------------------------------------------------
\* Properties of the File Manifest Scanner
\* ------------------------------------------------------------------------
\* the directories the entry of path i lies under, the root included
RECURSIVE Ancestors(_)
Ancestors(i) == IF i = 0 THEN {} ELSE {tree[i].parent} \cup Ancestors(tree[i].parent)

\* the files of the tree that lie under no directory whose path is ignored
FilesNotUnder(ignored) ==
    {i \in 1..Len(tree) :
        tree[i].what = "file" /\ \A d \in Ancestors(i) : ~Contains(ignored, d)}

\* C18: a call of visit_dirs that returns Ok has passed to the callback
\* the files, at every depth, that lie under no directory whose path is in
\* ignored_paths, each of them once and nothing else; so no entry under an
\* ignored directory is passed, and with no ignored path every file is.
C18_VisitDirsPrunes ==
    (scanfn = "visit_dirs" /\ scanned.status = "ok") =>
        /\ Range(scanned.files) = FilesNotUnder(ignored_paths)
        /\ Cardinality(Range(scanned.files)) = Len(scanned.files)
        /\ ignored_paths = <<>> =>
              Range(scanned.files) = {i \in 1..Len(tree) : tree[i].what = "file"}

C18_Witness ==
    /\ scanfn = "visit_dirs"
    /\ scanned.status = "ok"
    /\ Len(ignored_paths) = 1
    /\ ignored_paths[1] > 0
    /\ \E i \in 1..Len(tree) :
          /\ tree[i].what = "file"
          /\ ignored_paths[1] \in Ancestors(i)
          /\ tree[i].parent # ignored_paths[1]
    /\ scanned.files # <<>>

\* a call of grab_directory_and_files has returned or panicked
Grabbed == scanfn \in {"utils", "main"} /\ scanned.status # "call"

\* the traversal came to the entry whose reading fails: a directory that
\* is not pruned, or a file it collected
ReadFailed ==
    LET visited == visit_dirs(<<TargetPath>>, 0)
    IN  ~visited.ok \/ MetadataFails(visited.cb)

\* C19: when the reading of a directory or of an entry fails during a scan,
\* grab_directory_and_files returns an IO error and no manifest.
C19_ScanFailureIsError == (Grabbed /\ ReadFailed) => scanned.status = "err"

\* C20: <root>/target is on ignore_paths from WatchRs::default() on and
\* stays there whatever --ignore adds, and a manifest returned by
\* grab_directory_and_files holds no entry that lies under <root>/target.
C20_TargetIgnored ==
    scanfn \in {"utils", "main"} =>
        /\ Contains(ignore_paths, TargetPath)
        /\ (scanned.status = "ok" /\ TargetPath # NoSuchEntry) =>
              \A k \in 1..Len(scanned.files) : TargetPath \notin Ancestors(scanned.files[k])

C20_Witness ==
    /\ scanfn = "utils"
    /\ scanned.status = "ok"
    /\ Len(ignore_paths) = 2
    /\ TargetPath # NoSuchEntry
    /\ \E i \in 1..Len(tree) :
          /\ tree[i].what = "file"
          /\ TargetPath \in Ancestors(i)
          /\ tree[i].parent # TargetPath
    /\ Len(scanned.files) = 1

\* ------------------------------------------------------------------------
\* Process Identifier
\* ------------------------------------------------------------------------
\* C21: every call of the Process Identifier that returns gives back the pid
\* of a process of the table it polled whose name is the candidate name
\* (never the placeholder), and two calls that polled the same table give
\* back the same pid, also when two processes have the name.
C21_OnePidOfTheSnapshot ==
    /\ \A i \in 1..Len(returned) : returned[i].pid \in returned[i].table
    /\ \A i, j \in 1..Len(returned) :
          returned[i].table = returned[j].table => returned[i].pid = returned[j].pid

\* ------------------------------------------------------------------------
\* Order of the events of the two producers
\* ------------------------------------------------------------------------
\* the Watching events sent so far: one for each spawn, in the order of the
\* spawns, the one of the last spawn once the Process Identifier has returned
WatchingSent == IF spc \in {"lookup", "send_watching"} THEN spawns - 1 ELSE spawns

WatchingQueued == Cardinality({i \in 1..Len(chan) : chan[i].type = "Watching"})

\* the Watching events the Coordinator has handled
WatchingHandled == WatchingSent - WatchingQueued

Reports(e, file) == e.type = "FileChanged" /\ Contains(e.files, file)

\* k children are spawned, and the file is not as `file` says it is nor
\* reported so on the channel: an event that reports it later on comes from
\* a change made after the k-th spawn
NotYetChanged(k, file) ==
    /\ spawns = k
    /\ fs[file.path] # file.time
    /\ \A i \in 1..Len(chan) : ~Reports(chan[i], file)

\* the Coordinator receives next an event that reports the file
ReceivesReportOf(file) ==
    /\ cpc = "recv"
    /\ chan # <<>>
    /\ Reports(Received, file)

\* C22: a FileChanged event that reports a change made after the k-th spawn
\* is received by the Coordinator only after it has handled the Watching
\* event of that spawn.
C22_WatchingBeforeFileChanged ==
    \A k \in 1..MaxSpawn : \A file \in AllFiles :
        [](NotYetChanged(k, file) => [](ReceivesReportOf(file) => WatchingHandled >= k))

\* ------------------------------------------------------------------------
\* Terminal states of the Event Coordinator
\* ------------------------------------------------------------------------
\* an Exit or an Error event has been handled: the Coordinator is out of
\* its receive loop
Terminated == cpc \notin {"begin", "recv"}

Killed == {k \in 1..MaxSpawn : children[k].app = "killed"}

Born == {w \in 1..MaxWatch : watchers[w].pc # "unborn"}

\* C23: the handling of an Exit or of an Error event takes the Coordinator
\* out of its receive loop, and from then on it takes no event from the
\* channel, kills no process and spawns no watcher.
C23_ExitAndErrorTerminal ==
    /\ [][(HandlesExit \/ HandlesError) => Terminated']_vars
    /\ [][Terminated => /\ Terminated'
                        /\ Len(chan') >= Len(chan)
                        /\ Killed' = Killed
                        /\ Born' = Born]_vars

\* ------------------------------------------------------------------------
\* Construction
\* ------------------------------------------------------------------------
\* the WatchRs is constructed and begin_watching is not called yet
Fresh == cpc = "begin"

\* C24: a freshly constructed WatchRs has the status Stopped, no process_id
\* and as dir_path the current directory (dir_path is a String: the text of
\* the path as to_string_lossy gives it).
C24_DefaultFields ==
    Fresh => /\ self_status = "Stopped"
             /\ process_id = NoPid
             /\ dir_path = to_string_lossy(current_dir)

C24_Witness == Fresh /\ dir_path = <<"w", "U+FFFD">> /\ reload /\ fs[2] > 0

\* ------------------------------------------------------------------------
\* The pid of a Watching event
\* ------------------------------------------------------------------------
\* the ids a process of the candidate name can have
NamedPids == {AppPid(k) : k \in 1..MaxSpawn} \cup {ForeignPid}

\* C25: the pid of every Watching event sent by a Command Supervisor is the
\* id of a process that had the candidate name in the process table, never
\* the id of the run command the supervisor spawned.
C25_WatchingCarriesMatchedPid ==
    \A i \in 1..Len(chan) : chan[i].type = "Watching" => chan[i].pid \in NamedPids

\* ------------------------------------------------------------------------
\* The polling of the Process Identifier
\* ------------------------------------------------------------------------
\* the supervisor is in get_executable_id, polling the process table for
\* the name of an executable ("lookup") or for the empty name that
\* get_executable_from_dir gives when it finds none ("lookup_never")
Polling == spc \in {"lookup", "lookup_never"}

\* C26: get_executable_id has no timeout.  It returns only from a poll whose
\* table holds a process of the candidate name, with the pid of one of
\* them, and such a poll makes it return; as long as no such process is in
\* the table it goes on polling, and the supervisor sends nothing and does
\* not get to the wait on its child.
C26_NoTimeout ==
    /\ [][Polling => \/ /\ spc' = spc
                        /\ chan' = chan
                     \/ /\ spc = "lookup"
                        /\ Table # {}
                        /\ spc' = "send_watching"
                        /\ pid' \in Table
                        /\ chan' = chan]_vars
    /\ [](spc = "lookup" /\ Table # {} => ENABLED get_executable_id)

C26_Witness ==
    /\ spc = "lookup"
    /\ Table = {}
    /\ children[spawns].st = "exited"

\* ------------------------------------------------------------------------
\* A watcher on an unchanged tree
\* ------------------------------------------------------------------------
\* a turn of the watcher's loop whose rescan succeeds is taken (neither the
\* files nor the count of failures change) and the rescan is the baseline
RescanEqualsBaseline ==
    /\ watchers[1].pc = "poll"
    /\ fs' = fs
    /\ envsteps' = envsteps
    /\ grab_directory_and_files(fs) = watchers[1].file_names

\* C27: a turn of a Directory Watcher whose rescan equals the baseline sends
\* nothing and leaves the watcher polling with its baseline, and as long as
\* nothing has happened to the tree since the baseline was taken the channel
\* is empty.
C27_UnchangedTreeNoEvent ==
    /\ [][RescanEqualsBaseline => /\ chan' = chan
                                  /\ watchers' = watchers]_vars
    /\ [](envsteps = 0 /\ watchers[1].pc # "baseline"
            => chan = <<>> /\ watchers[1].pc = "poll")

C27_Witness ==
    /\ watchers[1].pc = "poll"
    /\ watchers[1].file_names # <<>>
    /\ grab_directory_and_files(fs) = watchers[1].file_names
    /\ envsteps > 0
    /\ chan = <<>>

\* ------------------------------------------------------------------------
\* dir_runner after a report
\* ------------------------------------------------------------------------
\* the watcher runs dir_runner and is in its loop
InDirRunner == wvariant \in {"runners", "main"} /\ watchers[1].pc = "poll"

\* the event sent in this step
Sent == chan'[Len(chan')]

\* C28: a turn of dir_runner that sends FileChanged makes the manifest of its
\* rescan the baseline, every entry it sent being in it; and once a change
\* is reported and the baseline is the manifest of the tree, no further event
\* is sent as long as the tree does not change.
C28_OneEventPerChange ==
    /\ [][(InDirRunner /\ WatcherReports) =>
            (/\ watchers'[1].pc = "poll"
             /\ \A i \in 1..Len(Sent.files) : Contains(watchers'[1].file_names, Sent.files[i])
             /\ (envsteps' = envsteps =>
                    watchers'[1].file_names = grab_directory_and_files(fs)))]_vars
    /\ [][(/\ InDirRunner
           /\ chan # <<>>
           /\ watchers[1].file_names = grab_directory_and_files(fs)
           /\ fs' = fs) => chan' = chan]_vars

\* ------------------------------------------------------------------------
\* Changes made while the watcher is re-armed
\* ------------------------------------------------------------------------
\* some event on the channel reports the file
OnChannel(file) == \E i \in 1..Len(chan) : Reports(chan[i], file)

\* The file was made after watcher w scanned for its report and before the
\* report is handled: w has sent and ended, the watcher that is to follow
\* it is not spawned yet, the file is as `file` says, and it is neither in
\* the baseline of w nor in what w sent.
MadeWhileRearming(w, file) ==
    /\ ProgramRuns
    /\ spc \in {"spawn", "lookup", "send_watching", "wait", "classify"}
    /\ watchers[w].pc = "done"
    /\ watchers[w + 1].pc = "unborn"
    /\ fs[file.path] = file.time
    /\ ~Contains(watchers[w].file_names, file)
    /\ ~OnChannel(file)

\* the program has ended, a scan has failed, or the file was changed again
\* or deleted
NoReportDue(file) ==
    \/ ~ProgramRuns
    \/ ScanFailed
    \/ fs[file.path] # file.time

\* C29: a file created or modified while the supervisor runs, after a watcher
\* has reported and before the watcher spawned in response has taken its
\* baseline, is in the payload of a FileChanged event sent later on.
C29_NoChangeLost ==
    \A w \in 1..(MaxWatch - 1) : \A file \in AllFiles :
        MadeWhileRearming(w, file) ~> (OnChannel(file) \/ NoReportDue(file))

\* ------------------------------------------------------------------------
\* The number of watchers in the lib.rs design
\* ------------------------------------------------------------------------
\* the watcher threads that are started and have not ended
Live == {w \in 1..MaxWatch : watchers[w].pc \in {"baseline", "poll"}}

\* the FileChanged events sent and not yet handled
FileChangedQueued == Cardinality({i \in 1..Len(chan) : chan[i].type = "FileChanged"})

\* C30: in the lib.rs design at most one watcher thread is alive at any
\* time, and from the start of the first watcher on, as long as no scan
\* has failed, the live watcher threads and the FileChanged events not yet
\* handled are one in all.
C30_OneWatcher ==
    /\ Cardinality(Live) <= 1
    /\ (~Fresh /\ ~ScanFailed) => Cardinality(Live) + FileChangedQueued = 1

C30_Witness ==
    /\ Live = {3}
    /\ watchers[1].pc = "done"
    /\ watchers[2].pc = "done"
    /\ FileChangedQueued = 0

\* ------------------------------------------------------------------------
\* A child ended by a signal
\* ------------------------------------------------------------------------
\* the supervisor of lib.rs, utils.rs or runners.rs acts on a wait that
\* returned Ok with status.code() None
ClassifiesSignal ==
    /\ svariant \in {"lib", "utils", "runners"}
    /\ spc = "classify"
    /\ status_code = "signal"
    /\ spc' # spc

\* C31: for a child that ended without an exit code the supervisor sends
\* nothing, neither Exit nor Starting nor Error, and is at the top of its
\* loop again, about to spawn the next child.
C31_SignalSilentRespawn ==
    [][ClassifiesSignal => (chan' = chan /\ spc' = "spawn")]_vars

C31_Witness ==
    /\ svariant = "lib"
    /\ spawns = 2
    /\ children[1].code = "signal"
    /\ Len(chan) = 2
    /\ chan[1].type = "Watching"
    /\ chan[2].type = "Watching"

\* ------------------------------------------------------------------------
\* Reload disabled
\* ------------------------------------------------------------------------
\* the events only a Command Supervisor sends
SupervisorEvents == {"Watching", "Exit", "Error"}

\* C32: with reload cleared by --no-reload no Command Supervisor runs and no
\* child is spawned, no Watching, Exit or Error event is on the channel,
\* process_id stays None and no process is killed; the handling of a
\* FileChanged event leaves every process alone and starts one watcher.
C32_NoReloadOnlyRearms ==
    /\ [](~reload => /\ spc = "off"
                     /\ spawns = 0
                     /\ \A i \in 1..Len(chan) : chan[i].type \notin SupervisorEvents
                     /\ process_id = NoPid
                     /\ Killed = {})
    /\ [][(~reload /\ HandlesFileChanged) =>
            (/\ children' = children
             /\ foreign' = foreign
             /\ process_id' = NoPid
             /\ Cardinality(Born' \ Born) = 1
             /\ Born \subseteq Born')]_vars

C32_Witness ==
    /\ ~reload
    /\ watchers[1].pc = "done"
    /\ watchers[2].pc = "done"
    /\ watchers[3].pc = "poll"
    /\ chan = <<>>

\* ------------------------------------------------------------------------
\* Starting before FileChanged
\* ------------------------------------------------------------------------
IsPrefix(a, b) == Len(a) <= Len(b) /\ SubSeq(b, 1, Len(a)) = a

\* the Coordinator takes the oldest event in this step
Takes == cpc = "recv" /\ chan # <<>> /\ IsPrefix(Tail(chan), chan')

\* the watcher threads that send FileChanged in this step
Reporters == {w \in 1..MaxWatch : watchers[w].pc = "poll" /\ watchers'[w].pc = "done"}

\* C33: the first event the Coordinator handles is Starting, and the
\* Starting event of the spawn of a watcher is handled before the
\* FileChanged event of that watcher.  Nothing is on the channel before
\* begin_watching, which leaves Starting as its only event; the channel
\* hands the events on oldest first; a watcher comes to life in the very
\* step that puts its Starting event on the channel, and FileChanged is sent
\* only by a watcher that is alive.
C33_StartingFirst ==
    /\ [](Fresh => chan = <<>> /\ Born = {})
    /\ [][(Fresh /\ ~Fresh') => chan' = <<Starting>>]_vars
    /\ [][Takes \/ IsPrefix(chan, chan')]_vars
    /\ [][Born' # Born =>
            (/\ chan' # <<>>
             /\ chan'[Len(chan')] = Starting
             /\ Cardinality(Born' \ Born) = 1
             /\ \E w \in Born' \ Born : watchers'[w].pc = "baseline")]_vars
    /\ [][\A i \in 1..Len(chan') :
            (IsPrefix(chan, chan') /\ i > Len(chan) /\ chan'[i].type = "FileChanged")
                => (Reporters # {} /\ Reporters \subseteq Born)]_vars

C33_Witness ==
    /\ reload
    /\ watchers[1].pc = "done"
    /\ watchers[2].pc = "poll"
    /\ chan = <<>>
    /\ spawns = 1

\* ------------------------------------------------------------------------
\* The Senders of the channel
\* ------------------------------------------------------------------------
\* Mutant: the WatchRs drops its Sender when it enters event_handler
OwnSender_dropped == IF cpc = "begin" THEN 1 ELSE 0

\* WatchRs.event: the Sender the WatchRs holds as long as it lives, which is
\* until event_handler(mut self) returns
OwnSender == IF ProgramRuns THEN 1 ELSE 0

\* the clone of the Sender moved into the CommandRunner thread, dropped
\* when the thread ends or panics
SupervisorSender ==
    IF spc \in {"spawn", "lookup", "send_watching", "wait", "classify"} THEN 1 ELSE 0

\* the Senders of the channel: the WatchRs's own, and the clones held by
\* the threads that run
Senders ==
    OwnSender
        + Cardinality({w \in 1..MaxWatch : watchers[w].pc \in {"baseline", "poll"}})
        + SupervisorSender

\* self.watcher.recv() returns Err(RecvError): the channel is empty and has
\* no Sender left
RecvDisconnected == cpc = "recv" /\ chan = <<>> /\ Senders = 0

\* every thread that sends has ended and nothing is on the channel
NoProducerLeft ==
    /\ cpc = "recv"
    /\ chan = <<>>
    /\ Live = {}
    /\ SupervisorSender = 0

C35_WatchingNeverFails ==
    [][HandlesWatching => (process_id' = Received.pid /\ cpc' = "recv")]_vars

\* ------------------------------------------------------------------------
\* Order and multiplicity of the differences
\* ------------------------------------------------------------------------
\* the positions of the current list whose entry is not in the previous list
NewPositions == {i \in 1..Len(list) : ~Contains(comparison_list, list[i])}

\* the j-th of these positions, counted from the front
NthNewPosition(j) ==
    CHOOSE i \in NewPositions : Cardinality({k \in NewPositions : k <= i}) = j

\* C36: get_list_differences returns the entries of the current list that
\* are not in the previous list, each as often as it is in the current list
\* and in the order they have there; the result is empty exactly when every
\* entry of the current list is in the previous list.
C36_DiffIsOrderedSubsequence ==
    Returned =>
        /\ Len(changes) = Cardinality(NewPositions)
        /\ \A j \in 1..Len(changes) : changes[j] = list[NthNewPosition(j)]
        /\ changes = <<>> <=> \A i \in 1..Len(list) : Contains(comparison_list, list[i])

C36_Witness ==
    /\ Returned
    /\ Len(list) = 3
    /\ Len(changes) = 3
    /\ changes[1] = changes[3]
    /\ changes[1] # changes[2]
    /\ comparison_list # <<>>

\* ------------------------------------------------------------------------
\* The events of one turn of the supervisor's loop
\* ------------------------------------------------------------------------
\* the spawns whose Watching event is due: all of them once the supervisor
\* is past the send of its current turn, all but the last before
WatchingDue ==
    IF spc \in {"wait", "classify", "spawn", "spawn_panic", "done"} THEN spawns ELSE spawns - 1

\* the events that classify the end of a child
ClassifyingEvents == {"Exit", "Starting", "Error"}

\* C37: the supervisors of lib.rs and utils.rs send one Watching event for
\* each spawn, none before the spawn and no second one, and the Exit,
\* Starting or Error event that classifies the end of a child follows the
\* Watching event of that child at once.  (No one receives: the channel
\* is the list of all events sent.)
C37_WatchingThenClassification ==
    (svariant \in {"lib", "utils"} /\ spawns > 0) =>
        /\ WatchingQueued = WatchingDue
        /\ \A i \in 1..Len(chan) :
              chan[i].type \in ClassifyingEvents => (i > 1 /\ chan[i - 1].type = "Watching")

C37_Witness ==
    /\ svariant = "utils"
    /\ spawns = 2
    /\ Len(chan) = 4
    /\ chan[2].type = "Starting"
    /\ chan[4].type = "Exit"

====
